---------------------------- MODULE Spec2Model ----------------------------
(***************************************************************************)
(* Model of pappukrs/terraform-flow.                                       *)
(*                                                                         *)
(*   - src/src/index.js: an Express application with two GET routes and    *)
(*     one listener on port 3000.  Route matching, HEAD/OPTIONS handling   *)
(*     and the 404 fallback are the Express router defaults the program    *)
(*     inherits by calling express() without changing any setting.         *)
(*   - src/infra/backend.tf: the security group, the EC2 instance and the  *)
(*     Terraform outputs.                                                  *)
(*   - src/readme.md, src/Deploy_process.md: the request path through the  *)
(*     cluster and the four GitHub Actions workflows.                      *)
(*                                                                         *)
(* Text is modelled as sequences of one-character strings so that case     *)
(* folding, the optional trailing slash and the query string are computed. *)
(* The rocket emoji that ends both response texts is written U+1F680.      *)
(***************************************************************************)
EXTENDS Integers, Sequences, FiniteSets, TLC

VARIABLES
    server,      \* "starting" | "bound" | "listening" | "failed"
    boundPorts,  \* the ports the process has a listener bound to
    portFree,    \* environment: can port 3000 be bound when the program starts
    log,         \* console output, a sequence of lines
    lastConn,    \* the latest connection attempt, if any: {[port, up, accepted]}
    sent,        \* every request a client has sent, by id: [id, method, url]
    inflight,    \* requests accepted and not yet handled: [id, method, url]
    responses,   \* responses written, in order: [id, method, url, status, body, by]
    nextId,      \* id of the next request
    pkt,         \* the client request traced through the deployment, or NoPkt
    cloud,       \* the resources that exist in the AWS account and the cluster
    backendSet,  \* infra/backend.tf names the state bucket that bootstrap made
    run,         \* the latest workflow run: [wf, status, pc, done, had]
    lastPush,    \* the latest git push: [branch, triggered, started]
    runs         \* number of workflow runs started

srvVars == <<server, boundPorts, portFree, log, lastConn, sent, inflight, responses, nextId>>

flowVars == <<pkt>>

pipeVars == <<cloud, backendSet, run, lastPush, runs>>

vars == <<srvVars, flowVars, pipeVars>>

-----------------------------------------------------------------------------
(* Bounds *)

MaxReq == 2          \* requests per behaviour
MaxRuns == 4         \* workflow runs per behaviour

-----------------------------------------------------------------------------
(* Text helpers *)

ToLowerChar(c) ==
    CASE c = "D" -> "d" [] c = "E" -> "e" [] c = "P" -> "p" [] c = "L" -> "l"
      [] c = "O" -> "o" [] c = "Y" -> "y" [] c = "X" -> "x" [] OTHER -> c

ToLower(s) == [i \in 1..Len(s) |-> ToLowerChar(s[i])]

\* parseurl(req).pathname: the request target up to the first "?".
pathname(url) ==
    LET q == {i \in 1..Len(url) : url[i] = "?"}
        cut == IF q = {} THEN Len(url) + 1
               ELSE CHOOSE i \in q : \A j \in q : i <= j
    IN  SubSeq(url, 1, cut - 1)

-----------------------------------------------------------------------------
(* src/src/index.js *)

Greeting ==   "CI/CD + Terraform demo working U+1F680"
DeployText == "deployed by CI/CD + Terraform demo working U+1F680"

ListenPort == 3000

\* The two response texts pasted into the wrong handlers.
appSwapped ==
    << [name |-> "root",   method |-> "GET", path |-> <<"/">>,
        text |-> DeployText],
       [name |-> "deploy", method |-> "GET",
        path |-> <<"/", "d", "e", "p", "l", "o", "y">>,
        text |-> Greeting] >>

\* The router stack in registration order: app.get("/") then app.get("/deploy").
app ==
    << [name |-> "root",   method |-> "GET", path |-> <<"/">>,
        text |-> Greeting],
       [name |-> "deploy", method |-> "GET",
        path |-> <<"/", "d", "e", "p", "l", "o", "y">>,
        text |-> DeployText] >>

\* Prefix matching, as app.use(path, ...) does (end: false).
LayerMatchPrefix(routePath, path) ==
    LET lp == ToLower(path)
        rp == ToLower(routePath)
    IN  Len(lp) >= Len(rp) /\ SubSeq(lp, 1, Len(rp)) = rp

\* The layer regexp of a route path with the default settings
\* (case sensitive routing off, strict routing off, end: true):
\* "/" gives ^\/?$ and "/deploy" gives ^\/deploy\/?$, both with flag i.
LayerMatch(routePath, path) ==
    LET lp == ToLower(path)
        rp == ToLower(routePath)
    IN  IF rp[Len(rp)] = "/"
        THEN lp = rp \/ lp = SubSeq(rp, 1, Len(rp) - 1)
        ELSE lp = rp \/ lp = rp \o <<"/">>

\* A route registered with app.all(...) handles every method.
HandlesAll(route, method) == TRUE

\* Route.prototype._handles_method: a HEAD request is handled by a GET route.
HandlesMethod(route, method) ==
    \/ route.method = method
    \/ method = "HEAD" /\ route.method = "GET"

\* res.send(text): status 200; for a HEAD request the body is not written.
send(req, text, by) ==
    [id |-> req.id, method |-> req.method, url |-> req.url, status |-> 200,
     body |-> IF req.method = "HEAD" THEN <<>> ELSE <<text>>, by |-> by]

\* Route.prototype._options: the methods of a route, HEAD added after GET.
RouteOptions(route) ==
    IF route.method = "GET" THEN <<"GET", ",", "HEAD">> ELSE <<route.method>>

\* finalhandler: nothing answered the request.  The message names the method
\* and the pathname; a HEAD request gets the status without the message.
NotFound(req) ==
    [id |-> req.id, method |-> req.method, url |-> req.url, status |-> 404,
     body |-> IF req.method = "HEAD" THEN <<>>
              ELSE <<"Cannot ", req.method, " ">> \o pathname(req.url),
     by |-> "finalhandler"]

\* Router.handle for one request: the first layer whose path and method match
\* runs its handler (no handler calls next()); an OPTIONS request that matched
\* some path gets the automatic Allow response; anything else falls through.
Route(req) ==
    LET path    == pathname(req.url)
        matched == {i \in 1..Len(app) : LayerMatch(app[i].path, path)}
        handled == {i \in matched : HandlesMethod(app[i], req.method)}
        first(S) == CHOOSE i \in S : \A j \in S : i <= j
    IN  IF handled # {}
        THEN send(req, app[first(handled)].text, app[first(handled)].name)
        ELSE IF req.method = "OPTIONS" /\ matched # {}
        THEN [id |-> req.id, method |-> req.method, url |-> req.url,
              status |-> 200, body |-> RouteOptions(app[first(matched)]),
              by |-> "options"]
        ELSE NotFound(req)

\* A handler that keeps a hit counter and stops answering after the first hit.
DispatchCounting(req, served) ==
    IF served > 0 THEN NotFound(req) ELSE Route(req)

\* What the application answers to req after `served` earlier answers.  Neither
\* handler closes over a variable, so the answer is the router's alone.
Dispatch(req, served) == Route(req)

-----------------------------------------------------------------------------
(* Inputs *)

Methods == {"GET", "HEAD", "POST", "DELETE", "OPTIONS"}

Urls ==
    { <<"/">>,
      <<"/", "d", "e", "p", "l", "o", "y">>,
      <<"/", "d", "e", "p", "l", "o", "y", "/">>,
      <<"/", "D", "e", "p", "l", "o", "y">>,
      <<"/", "x">>,
      <<"/", "?", "x">> }

Ports == {22, 80, 3000}

\* The requests of the start-up and interleaving runs.
LiveMethods == {"GET", "POST"}
LiveUrls == { <<"/">>, <<"/", "x">> }

-----------------------------------------------------------------------------
(* The server process *)

InitServer ==
    /\ server = "starting"
    /\ boundPorts = {}
    /\ portFree \in BOOLEAN
    /\ log = <<>>
    /\ lastConn = {}
    /\ sent = <<>>
    /\ inflight = {}
    /\ responses = <<>>
    /\ nextId = 1

\* The listener bound to a mistyped port.
ListenWrongPort ==
    /\ server = "starting"
    /\ portFree
    /\ server' = "bound"
    /\ boundPorts' = {8080}
    /\ UNCHANGED <<portFree, log, lastConn, sent, inflight, responses, nextId, flowVars, pipeVars>>

\* app.listen(3000, ...): http.Server.listen binds the port.
Listen ==
    /\ server = "starting"
    /\ portFree
    /\ server' = "bound"
    /\ boundPorts' = boundPorts \cup {ListenPort}
    /\ UNCHANGED <<portFree, log, lastConn, sent, inflight, responses, nextId, flowVars, pipeVars>>

\* The bind fails (EADDRINUSE): the server emits "error" and the process ends
\* with no listener.  Express 4 leaves the error unhandled and the callback is
\* never called; Express 5 passes the error to the callback, which logs.
ListenFail ==
    /\ server = "starting"
    /\ ~portFree
    /\ server' = "failed"
    /\ \/ log' = log
       \/ log' = Append(log, "App running")
    /\ UNCHANGED <<boundPorts, portFree, lastConn, sent, inflight, responses, nextId, flowVars, pipeVars>>

\* The "listening" event: () => console.log("App running").
Listening ==
    /\ server = "bound"
    /\ server' = "listening"
    /\ log' = Append(log, "App running")
    /\ UNCHANGED <<boundPorts, portFree, lastConn, sent, inflight, responses, nextId, flowVars, pipeVars>>

Up == server \in {"bound", "listening"}

\* Whether a connection attempt to a port is accepted.
Accepts(port) == Up /\ port \in boundPorts

\* A client tries to connect to a port of the host.
Connect(port) ==
    /\ lastConn' = {[port |-> port, up |-> Up, accepted |-> Accepts(port)]}
    /\ UNCHANGED <<server, boundPorts, portFree, log, sent, inflight, responses, nextId, flowVars, pipeVars>>

\* A client connects to the listener and sends one request.
Request(method, url) ==
    /\ Accepts(ListenPort)
    /\ nextId <= MaxReq
    /\ inflight' = inflight \cup {[id |-> nextId, method |-> method, url |-> url]}
    /\ sent' = Append(sent, [id |-> nextId, method |-> method, url |-> url])
    /\ nextId' = nextId + 1
    /\ UNCHANGED <<server, boundPorts, portFree, log, lastConn, responses, flowVars, pipeVars>>

\* A handler that calls res.send twice.
HandleTwice(req) ==
    /\ req \in inflight
    /\ server = "listening"
    /\ inflight' = inflight \ {req}
    /\ responses' = Append(Append(responses, Dispatch(req, Len(responses))),
                           Dispatch(req, Len(responses)))
    /\ UNCHANGED <<server, boundPorts, portFree, log, lastConn, sent, nextId, flowVars, pipeVars>>

\* The event loop runs the router on one received request; the handler writes
\* the response on that request's own res object.
Handle(req) ==
    /\ req \in inflight
    /\ server = "listening"
    /\ inflight' = inflight \ {req}
    /\ responses' = Append(responses, Dispatch(req, Len(responses)))
    /\ UNCHANGED <<server, boundPorts, portFree, log, lastConn, sent, nextId, flowVars, pipeVars>>

-----------------------------------------------------------------------------
(* The path of a client request: src/readme.md, src/infra/backend.tf and the
   deploy job of src/Deploy_process.md *)

NoPkt == [state |-> "none"]

\* aws_security_group.app_sg: the ingress rules (tcp, from every address).
SgIngress == { [from_port |-> 22, to_port |-> 22],
               [from_port |-> 80, to_port |-> 80] }

SgAdmits(port) == \E r \in SgIngress : r.from_port <= port /\ port <= r.to_port

\* docker run -d -p 80:3000: host port 80 is published to container port 3000.
PortMap == [host |-> 80, container |-> 3000]

\* The application in the pod or container listening on another port.
AppListensElsewhere(port) == port = 8080

\* The application in the pod or container accepts what arrives on its port.
AppListens(port) == port = ListenPort

\* The hops of a variant, from the client's side to the application.
Hops(variant) ==
    IF variant = "eks"
    THEN <<"ALB", "Ingress", "Service", "Pods">>
    ELSE <<"SecurityGroup", "Host", "Container">>

\* Whether a hop takes traffic addressed to a port.
HopAccepts(node, port) ==
    CASE node = "ALB"           -> port = 80
      [] node = "Ingress"       -> port = 80
      [] node = "Service"       -> port = 30080
      [] node = "Pods"          -> AppListens(port)
      [] node = "SecurityGroup" -> SgAdmits(port)
      [] node = "Host"          -> port = PortMap.host
      [] node = "Container"     -> AppListens(port)

\* The port a hop addresses on the next hop.
HopOut(node, port) ==
    CASE node = "ALB"           -> 80
      [] node = "Ingress"       -> 30080
      [] node = "Service"       -> 3000
      [] node = "SecurityGroup" -> port
      [] node = "Host"          -> PortMap.container
      [] OTHER                  -> port

ClientPorts == {22, 80, 443, 3000}

InitFlow == pkt = NoPkt

\* A client addresses the entry of a variant on a port with one request.
Send(variant, port, method, url) ==
    /\ pkt.state \in {"none", "done", "dropped"}
    /\ pkt' = [state |-> "forward", variant |-> variant, entry |-> port,
               port |-> port, pos |-> 0,
               req |-> [id |-> 1, method |-> method, url |-> url],
               status |-> 0, fwd |-> <<>>, back |-> <<>>]
    /\ UNCHANGED <<srvVars, pipeVars>>

\* The next hop takes the request and addresses the hop after it.
Forward ==
    /\ pkt.state = "forward"
    /\ pkt.pos < Len(Hops(pkt.variant))
    /\ LET node == Hops(pkt.variant)[pkt.pos + 1]
       IN  /\ HopAccepts(node, pkt.port)
           /\ pkt' = [pkt EXCEPT !.pos = pkt.pos + 1,
                                 !.fwd = Append(pkt.fwd, node),
                                 !.port = IF pkt.pos + 1 = Len(Hops(pkt.variant))
                                          THEN pkt.port
                                          ELSE HopOut(node, pkt.port)]
    /\ UNCHANGED <<srvVars, pipeVars>>

\* The next hop does not take traffic on the addressed port.
Drop ==
    /\ pkt.state = "forward"
    /\ pkt.pos < Len(Hops(pkt.variant))
    /\ ~HopAccepts(Hops(pkt.variant)[pkt.pos + 1], pkt.port)
    /\ pkt' = [pkt EXCEPT !.state = "dropped"]
    /\ UNCHANGED <<srvVars, pipeVars>>

\* The Node.js app processes the request and sends the response.
Serve ==
    /\ pkt.state = "forward"
    /\ pkt.pos = Len(Hops(pkt.variant))
    /\ pkt' = [pkt EXCEPT !.state = "back",
                          !.status = Dispatch(pkt.req, 0).status,
                          !.back = <<Hops(pkt.variant)[pkt.pos]>>]
    /\ UNCHANGED <<srvVars, pipeVars>>

\* The response goes back one hop on the connection the request came in on.
Return ==
    /\ pkt.state = "back"
    /\ IF pkt.pos > 1
       THEN pkt' = [pkt EXCEPT !.pos = pkt.pos - 1,
                               !.back = Append(pkt.back,
                                               Hops(pkt.variant)[pkt.pos - 1])]
       ELSE pkt' = [pkt EXCEPT !.pos = 0, !.state = "done"]
    /\ UNCHANGED <<srvVars, pipeVars>>

NextFlow ==
    \/ \E variant \in {"eks", "ec2"}, port \in ClientPorts,
          method \in Methods, url \in Urls : Send(variant, port, method, url)
    \/ Forward
    \/ Drop
    \/ Serve
    \/ Return

-----------------------------------------------------------------------------
(* The four GitHub Actions workflows, as src/readme.md and
   src/Deploy_process.md describe them.  Runs follow one another, as the
   guides' steps do; the load balancer controller acts on its own. *)

StateStorage == {"S3", "DynamoDB"}

\* Step 1, bootstrap: the state bucket, the lock table and the image registry.
BootstrapCreates == {"S3", "DynamoDB", "ECR"}

\* The resources of the Terraform configuration in infra/: the VPC, the cluster
\* and the node group of step 2, and those backend.tf declares or refers to.
TerraformManaged == {"VPC", "EKS", "NodeGroup", "ECR", "SecurityGroup", "EC2"}

\* Objects that live inside the cluster and go with it.
InCluster == {"LBController", "Deployment", "Service", "Ingress"}

\* The confirm input each manually run workflow asks for.
Confirm(wf) ==
    CASE wf = "bootstrap" -> "bootstrap"
      [] wf = "infra-up"  -> "yes"
      [] wf = "destroy"   -> "destroy"

\* The destroy workflow running Terraform before it deletes the Ingress.
StepsDestroyFirst(wf) ==
    CASE wf = "bootstrap" -> <<"create-backend">>
      [] wf = "infra-up"  -> <<"terraform-apply", "install-controller">>
      [] wf = "deploy"    -> <<"build", "push", "envsubst", "apply">>
      [] wf = "destroy"   -> <<"terraform-destroy", "delete-ingress">>

\* The deploy workflow applying the manifests before it pushes the image.
StepsApplyFirst(wf) ==
    CASE wf = "bootstrap" -> <<"create-backend">>
      [] wf = "infra-up"  -> <<"terraform-apply", "install-controller">>
      [] wf = "deploy"    -> <<"build", "envsubst", "apply", "push">>
      [] wf = "destroy"   -> <<"delete-ingress", "terraform-destroy">>

\* The steps of each workflow, in order.
Steps(wf) ==
    CASE wf = "bootstrap" -> <<"create-backend">>
      [] wf = "infra-up"  -> <<"terraform-apply", "install-controller">>
      [] wf = "deploy"    -> <<"build", "push", "envsubst", "apply">>
      [] wf = "destroy"   -> <<"delete-ingress", "terraform-destroy">>

\* terraform init needs the state bucket, the lock table and a backend.tf that
\* names the bucket.
TerraformReady(c, b) == StateStorage \subseteq c /\ b

\* Whether a step can succeed on the resources c.
StepOk(step, c, b) ==
    CASE step = "create-backend"     -> TRUE
      [] step = "terraform-apply"    -> TerraformReady(c, b)
      [] step = "install-controller" -> {"EKS", "NodeGroup"} \subseteq c
      [] step = "build"              -> TRUE
      [] step = "push"               -> "ECR" \in c
      [] step = "envsubst"           -> TRUE
      [] step = "apply"              -> {"EKS", "NodeGroup"} \subseteq c
      [] step = "delete-ingress"     -> "Ingress" \in c
      [] step = "terraform-destroy"  -> TerraformReady(c, b)

\* terraform destroy that leaves the VPC behind.
StepEffectKeepsVpc(step, c) ==
    CASE step = "create-backend"     -> c \cup BootstrapCreates
      [] step = "terraform-apply"    -> c \cup TerraformManaged
      [] step = "install-controller" -> c \cup {"LBController"}
      [] step = "push"               -> c \cup {"Image"}
      [] step = "apply"              -> c \cup {"Deployment", "Service", "Ingress"}
      [] step = "delete-ingress"     -> c \ {"Ingress", "ALB"}
      [] step = "terraform-destroy"  ->
            c \ ((TerraformManaged \ {"VPC"}) \cup InCluster \cup {"Image"})
      [] OTHER                       -> c

\* The resources after a step that succeeded on c.  Deleting the Ingress makes
\* the controller remove its load balancer; destroying the Terraform resources
\* takes the cluster's objects and the registry's images with them, and leaves a
\* load balancer that still exists where it is.
StepEffect(step, c) ==
    CASE step = "create-backend"     -> c \cup BootstrapCreates
      [] step = "terraform-apply"    -> c \cup TerraformManaged
      [] step = "install-controller" -> c \cup {"LBController"}
      [] step = "push"               -> c \cup {"Image"}
      [] step = "apply"              -> c \cup {"Deployment", "Service", "Ingress"}
      [] step = "delete-ingress"     -> c \ {"Ingress", "ALB"}
      [] step = "terraform-destroy"  ->
            c \ (TerraformManaged \cup InCluster \cup {"Image"})
      [] OTHER                       -> c

\* done: the steps executed so far; had: the resources when the run started.
NoRun == [wf |-> "none", status |-> "completed", pc |-> 1, done |-> <<>>,
          had |-> {}]
\* started: the number of the run the push started, 0 when it started none.
NoPush == [branch |-> "none", triggered |-> FALSE, started |-> 0]

Idle == run.status \in {"completed", "failed"}

InitPipe ==
    /\ cloud = {}
    /\ backendSet = FALSE
    /\ run = NoRun
    /\ lastPush = NoPush
    /\ runs = 0

\* on: push: branches: [main]
Triggers(branch) == branch = "main"

\* The operator runs one of the manual workflows with a confirm input.
RunWorkflow(wf, confirm) ==
    /\ Idle
    /\ runs < MaxRuns
    /\ runs' = runs + 1
    /\ run' = [wf |-> wf,
               status |-> IF confirm = Confirm(wf) THEN "running" ELSE "failed",
               pc |-> 1, done |-> <<>>, had |-> cloud]
    /\ UNCHANGED <<cloud, backendSet, lastPush, srvVars, flowVars>>

\* A git push; a push to main starts a run of the deploy workflow.
Push(branch) ==
    /\ Idle
    /\ runs < MaxRuns
    /\ lastPush' = [branch |-> branch, triggered |-> Triggers(branch),
                    started |-> IF Triggers(branch) THEN runs + 1 ELSE 0]
    /\ IF Triggers(branch)
       THEN /\ run' = [wf |-> "deploy", status |-> "running", pc |-> 1,
                       done |-> <<>>, had |-> cloud]
            /\ runs' = runs + 1
       ELSE UNCHANGED <<run, runs>>
    /\ UNCHANGED <<cloud, backendSet, srvVars, flowVars>>

\* The operator writes the created bucket's name into infra/backend.tf.
UpdateBackendTf ==
    /\ Idle
    /\ "S3" \in cloud
    /\ ~backendSet
    /\ backendSet' = TRUE
    /\ UNCHANGED <<cloud, run, lastPush, runs, srvVars, flowVars>>

\* The running workflow executes its next step, which succeeds.
Step ==
    /\ run.status = "running"
    /\ LET step == Steps(run.wf)[run.pc]
       IN  /\ StepOk(step, cloud, backendSet)
           /\ cloud' = StepEffect(step, cloud)
           /\ run' = [run EXCEPT
                        !.done = Append(run.done, step),
                        !.pc = run.pc + 1,
                        !.status = IF run.pc = Len(Steps(run.wf))
                                   THEN "completed" ELSE "running"]
    /\ UNCHANGED <<backendSet, lastPush, runs, srvVars, flowVars>>

\* The next step cannot succeed.  The job stops there; a delete of an Ingress
\* that does not exist may instead be passed over, the guides do not say.
StepFails ==
    /\ run.status = "running"
    /\ LET step == Steps(run.wf)[run.pc]
       IN  /\ ~StepOk(step, cloud, backendSet)
           /\ \/ run' = [run EXCEPT !.status = "failed"]
              \/ /\ step = "delete-ingress"
                 /\ run' = [run EXCEPT
                              !.done = Append(run.done, step),
                              !.pc = run.pc + 1,
                              !.status = IF run.pc = Len(Steps(run.wf))
                                         THEN "completed" ELSE "running"]
    /\ UNCHANGED <<cloud, backendSet, lastPush, runs, srvVars, flowVars>>

\* The load balancer controller creates the ALB of an Ingress that has none.
CreateALB ==
    /\ {"Ingress", "LBController"} \subseteq cloud
    /\ "ALB" \notin cloud
    /\ cloud' = cloud \cup {"ALB"}
    /\ UNCHANGED <<backendSet, run, lastPush, runs, srvVars, flowVars>>

Workflows == {"bootstrap", "infra-up", "destroy"}
Confirms == {"bootstrap", "yes", "destroy"}
Branches == {"main", "dev"}

NextPipe ==
    \/ \E wf \in Workflows, confirm \in Confirms : RunWorkflow(wf, confirm)
    \/ \E branch \in Branches : Push(branch)
    \/ UpdateBackendTf
    \/ Step
    \/ StepFails
    \/ CreateALB

Init == InitServer /\ InitFlow /\ InitPipe

\* The responder under every request of Methods x Urls.
Next ==
    \/ Listen
    \/ ListenFail
    \/ Listening
    \/ \E method \in Methods, url \in Urls : Request(method, url)
    \/ \E req \in inflight : Handle(req)

Spec == Init /\ [][Next]_vars

\* The listener and the event loop: start-up, connection attempts on every
\* port of Ports, and concurrently arriving requests.
NextLive ==
    \/ Listen
    \/ ListenFail
    \/ Listening
    \/ \E port \in Ports : Connect(port)
    \/ \E method \in LiveMethods, url \in LiveUrls : Request(method, url)
    \/ \E req \in inflight : Handle(req)

\* One step of start-up: the bind, its failure, or the "listening" callback.
Startup == Listen \/ ListenFail \/ Listening

\* Node runs a pending start-up step, and the event loop runs the handler of a
\* received request while one is waiting: both are weakly fair.
FlowSpec == Init /\ [][NextFlow]_vars

PipeSpec == Init /\ [][NextPipe]_vars

LiveSpec ==
    /\ Init
    /\ [][NextLive]_vars
    /\ WF_vars(Startup)
    /\ WF_vars(\E req \in inflight : Handle(req))

-----------------------------------------------------------------------------
(* Properties of the responder *)

Answers == {responses[i] : i \in 1..Len(responses)}

RootPath == <<"/">>
DeployPath == <<"/", "d", "e", "p", "l", "o", "y">>

C2_DeployText ==
    \A r \in Answers :
        r.method = "GET" /\ pathname(r.url) = DeployPath
            => /\ r.status = 200
               /\ r.body = <<"deployed by CI/CD + Terraform demo working U+1F680">>
               /\ r.by = "deploy"
               /\ r.by # "root"

\* A GET of "/deploy" has been answered.
C2_Witness ==
    \E r \in Answers : r.method = "GET" /\ pathname(r.url) = DeployPath

ConfiguredBodies ==
    { <<"CI/CD + Terraform demo working U+1F680">>,
      <<"deployed by CI/CD + Terraform demo working U+1F680">> }

\* C3 as stated: every request other than GET "/" and GET "/deploy" is answered
\* with status 404 or 405, never 200, never with a configured text.
C3_Original ==
    \A r \in Answers :
        ~(r.method = "GET" /\ pathname(r.url) \in {RootPath, DeployPath})
            => /\ r.status \in {404, 405}
               /\ r.body \notin ConfiguredBodies

\* The path is "/" or "/deploy" up to letter case and one trailing slash.
OnRoute(url) ==
    ToLower(pathname(url)) \in {RootPath, DeployPath, DeployPath \o <<"/">>}

\* C3 amended: a request whose path is not "/" or "/deploy" up to letter case
\* and one trailing slash, or whose method is not GET, HEAD or OPTIONS, is
\* answered 404 by the default handler and never with a configured text; on
\* those paths HEAD is answered 200 with an empty body, OPTIONS 200 with the
\* Allow list, and GET 200 with the text of the route.
C3_Amended ==
    \A r \in Answers :
        /\ (~OnRoute(r.url) \/ r.method \notin {"GET", "HEAD", "OPTIONS"})
              => /\ r.status = 404
                 /\ r.by = "finalhandler"
                 /\ r.body \notin ConfiguredBodies
        /\ (OnRoute(r.url) /\ r.method = "HEAD")
              => r.status = 200 /\ r.body = <<>>
        /\ (OnRoute(r.url) /\ r.method = "OPTIONS")
              => r.status = 200 /\ r.body = <<"GET", ",", "HEAD">>
        /\ (OnRoute(r.url) /\ r.method = "GET")
              => r.status = 200 /\ r.body \in ConfiguredBodies
        /\ r.status # 405

\* Answers of each kind the amended C3 speaks of have been given: a 404 to
\* another method on a route path and to another path, a HEAD and an OPTIONS.
C3_Witness ==
    /\ Len(responses) = 2
    /\ \/ /\ responses[1].method = "POST" /\ OnRoute(responses[1].url)
          /\ responses[2].method = "GET" /\ ~OnRoute(responses[2].url)
       \/ /\ responses[1].method = "HEAD" /\ OnRoute(responses[1].url)
          /\ responses[2].method = "OPTIONS" /\ OnRoute(responses[2].url)

-----------------------------------------------------------------------------
(* Properties of the listener and the event loop *)

AnsweredIds == {responses[i].id : i \in 1..Len(responses)}

\* Each response answers a request that was sent, with that request's method
\* and target, and no request has two responses.
OneResponseEach ==
    /\ \A i \in 1..Len(responses) :
          /\ responses[i].id \in 1..Len(sent)
          /\ sent[responses[i].id].method = responses[i].method
          /\ sent[responses[i].id].url = responses[i].url
          /\ responses[i].id \notin {r.id : r \in inflight}
    /\ \A i, j \in 1..Len(responses) :
          responses[i].id = responses[j].id => i = j

\* C10: under any interleaving of the requests received by a listening server,
\* every request is eventually answered, and answered exactly once, with the
\* response of its own handler invocation.
C10_AnsweredOnce ==
    /\ []OneResponseEach
    /\ \A id \in 1..MaxReq : (Len(sent) >= id) ~> (id \in AnsweredIds)

\* Two requests were in flight together and the later one was answered first.
C10_Witness ==
    /\ Len(responses) = 2
    /\ responses[1].id = 2
    /\ responses[2].id = 1

-----------------------------------------------------------------------------
(* Properties of the request path *)

Reverse(q) == [i \in 1..Len(q) |-> q[Len(q) + 1 - i]]

\* C8: a request that enters on port 80 is forwarded ALB -> Ingress -> Service
\* (NodePort 30080) -> Pods (targetPort 3000), or through the security group and
\* the host's published port 80 to the container's port 3000; the port of the
\* last hop is the port the app listens on, so no hop drops it, and the response
\* goes back through the same hops in reverse order.
C8_RequestFlow ==
    (pkt.state # "none" /\ pkt.entry = 80) =>
        /\ pkt.state # "dropped"
        /\ pkt.fwd = SubSeq(Hops(pkt.variant), 1, Len(pkt.fwd))
        /\ (pkt.state = "forward" /\ pkt.pos >= 1 /\ pkt.fwd[pkt.pos] = "Service")
              => pkt.port = 3000
        /\ (pkt.state = "forward" /\ pkt.pos >= 1 /\ pkt.fwd[pkt.pos] = "Ingress")
              => pkt.port = 30080
        /\ (pkt.state = "forward" /\ pkt.pos >= 1 /\ pkt.fwd[pkt.pos] = "Host")
              => pkt.port = 3000
        /\ pkt.state \in {"back", "done"} =>
              /\ pkt.port = 3000
              /\ pkt.fwd = IF pkt.variant = "eks"
                           THEN <<"ALB", "Ingress", "Service", "Pods">>
                           ELSE <<"SecurityGroup", "Host", "Container">>
              /\ pkt.status = Route(pkt.req).status
        /\ pkt.state = "done" => pkt.back = Reverse(pkt.fwd)

\* A request has gone through the cluster on port 80 and its response is back.
C8_Witness ==
    /\ pkt.state = "done"
    /\ pkt.variant = "eks"
    /\ pkt.entry = 80
    /\ pkt.status = 200

-----------------------------------------------------------------------------
(* Properties of the workflows *)

IsPrefix(p, q) == Len(p) <= Len(q) /\ p = SubSeq(q, 1, Len(p))

Position(q, x) == CHOOSE i \in 1..Len(q) : q[i] = x

Has(q, x) == \E i \in 1..Len(q) : q[i] = x

====
